---- MODULE Spec2Model ----
(***************************************************************************)
(* Model of the two vision tools of the neuro-toolkit Streamlit app:       *)
(*   projects/neuro_steady.py  (DexterityTransformer, run)                 *)
(*   projects/facial_nerve.py  (FacialNerveTransformer, run)               *)
(* Each tool has two threads of control: the Streamlit script thread,      *)
(* which re-executes run() from the top on every operator interaction,     *)
(* and the streamlit_webrtc worker (async_transform=True), which calls     *)
(* transform() once per video frame.  Both share the transformer object    *)
(* and st.session_state without any lock; the model interleaves them one   *)
(* source statement at a time.                                             *)
(***************************************************************************)
EXTENDS Integers, Sequences, FiniteSets, TLC

VARIABLES
    tool,        \* app.py sidebar radio: which run() the script executes
    now,         \* time.time(), in whole seconds
    \* ---- neuro_steady.py ----
    sel,         \* value of st.selectbox("Choose Task", ...)
    trigger,     \* widget that caused the current rerun: select / start / analyze
    spc,         \* script thread: next source line of run() / set_task()
    dtask,       \* DexterityTransformer.task
    tracking,    \* DexterityTransformer.tracking
    start_time,  \* DexterityTransformer.start_time (NoTime models None)
    points,      \* st.session_state.points
    tpc,         \* worker thread: next source line of transform()
    hand,        \* transform local: <<>> or <<(cx, cy)>> from the hand detector
    analysis,    \* what the "Analyze Results" branch rendered in this rerun
    \* ---- facial_nerve.py ----
    fsel,        \* value of st.selectbox of the facial tool
    fspc,        \* script thread: next source line of set_task()
    ftask,       \* FacialNerveTransformer.task
    baseline_coords, \* st.session_state.baseline_coords: <<>> (None) or <<snapshot>>
    ftpc,        \* worker thread: next source line of transform()
    coords,      \* transform local: <<>> or <<snapshot>> of the frame in flight
    baseline,    \* transform local `baseline` (line 74): <<>> (None) or <<snapshot>>
    overlay      \* text transform() has put on the frame in flight / last frame

dexVars  == <<sel, trigger, spc, dtask, tracking, start_time, points, tpc, hand, analysis>>
faceVars == <<fsel, fspc, ftask, baseline_coords, ftpc, coords, baseline, overlay>>
vars     == <<tool, now, sel, trigger, spc, dtask, tracking, start_time, points, tpc,
              hand, analysis, fsel, fspc, ftask, baseline_coords, ftpc, coords,
              baseline, overlay>>

----
(* Bounds of the model *)
MaxPoints == 3      \* frames with a detected hand accepted while the buffer is shorter
MaxTime   == 17     \* the clock stops advancing here
TickStep  == 4      \* seconds between two clock readings
MaxPixel  == 2      \* landmark coordinates range over PixelStep * (0..MaxPixel)
PixelStep == 6
Scale     == 100    \* statistics are kept in 1/Scale pixel (float64 is finer)

(* Program constants *)
NoTime        == -1     \* start_time = None
StartClock    == 1      \* time.time() is positive, hence truthy
TrackSeconds  == 10     \* neuro_steady.py:49
TARGET_X      == 320
TARGET_Y      == 240
TARGET_RADIUS == 20
SmileThreshold == 10    \* facial_nerve.py:81
BrowThreshold  == 5     \* facial_nerve.py:90
EyeThreshold   == 0     \* facial_nerve.py:99

TARGET_POS == <<TARGET_X, TARGET_Y>>

DexTasks  == {"None", "Hold Steady"}
FaceTasks == {"None", "Set Baseline", "Smile", "Raise Eyebrows", "Close Eyes Tightly"}
ScoringTasks == {"Smile", "Raise Eyebrows", "Close Eyes Tightly"}

\* Fingertip positions the hand detector may report (int(x*w), int(y*h)).
HandPoints == {<<TARGET_X, TARGET_Y>>, <<TARGET_X - TARGET_RADIUS, TARGET_Y>>,
               <<TARGET_X, TARGET_Y + TARGET_RADIUS + TrackSeconds>>}

----
(* Arithmetic helpers *)
Abs(x) == IF x < 0 THEN 0 - x ELSE x
Min(a, b) == IF a <= b THEN a ELSE b
Max(a, b) == IF a >= b THEN a ELSE b

RECURSIVE SumSeq(_)
SumSeq(s) == IF s = <<>> THEN 0 ELSE Head(s) + SumSeq(Tail(s))

RECURSIVE SqrtSearch(_, _, _)
SqrtSearch(v, lo, hi) ==
    IF lo >= hi THEN lo
    ELSE LET mid == (lo + hi + 1) \div 2
         IN  IF mid * mid <= v THEN SqrtSearch(v, mid, hi)
                               ELSE SqrtSearch(v, lo, mid - 1)

\* floor(sqrt(v)) for 0 <= v < 2^31
ISqrt(v) == SqrtSearch(v, 0, Min(v, 46340))

----
(***************************************************************************)
(* neuro_steady.py, run(), lines 124-133: batch statistics.                *)
(* np.std is the population standard deviation sqrt(mean(|x - mean|^2));   *)
(* with n points and S their sum, x_i - mean = (n*x_i - S)/n, so the       *)
(* variance is Sum((n*x_i - S)^2) / n^3.  Results are in 1/Scale pixel,    *)
(* rounded down.                                                           *)
(***************************************************************************)
Column(pts, k) == [i \in 1..Len(pts) |-> pts[i][k]]

\* deviations summed without squaring: always 0
SqDevSumUnsquared(xs) ==
    LET n == Len(xs)
        S == SumSeq(xs)
    IN  SumSeq([i \in 1..n |-> n * xs[i] - S])

SqDevSum(xs) ==
    LET n == Len(xs)
        S == SumSeq(xs)
    IN  SumSeq([i \in 1..n |-> (n * xs[i] - S) * (n * xs[i] - S)])

NpStd(xs) ==
    LET n == Len(xs)
    IN  ISqrt((SqDevSum(xs) * Scale * Scale) \div (n * n * n))

\* np.mean([std_x, std_y])
SteadinessScore(pts) == (NpStd(Column(pts, 1)) + NpStd(Column(pts, 2))) \div 2

\* np.sqrt((p[0] - TARGET_POS[0])**2 + (p[1] - TARGET_POS[1])**2)
TargetDistance(p) ==
    ISqrt(((p[1] - TARGET_POS[1]) * (p[1] - TARGET_POS[1])
           + (p[2] - TARGET_POS[2]) * (p[2] - TARGET_POS[2])) * Scale * Scale)

PrecisionScore(pts) ==
    SumSeq([i \in 1..Len(pts) |-> TargetDistance(pts[i])]) \div Len(pts)

NoAnalysis == [kind |-> "none", pts |-> <<>>, steadiness |-> 0, precision |-> 0]
NoDataWarning == [kind |-> "NoData", pts |-> <<>>, steadiness |-> 0, precision |-> 0]
AnalysisResults(pts) ==
    [kind |-> "stats", pts |-> pts,
     steadiness |-> SteadinessScore(pts), precision |-> PrecisionScore(pts)]

\* Python truth value of self.start_time (None and 0 are falsy)
Truthy(t) == t # NoTime /\ t # 0

----
(***************************************************************************)
(* neuro_steady.py: the script thread.  Every widget interaction reruns    *)
(* run() from the top: line 110 calls set_task(task) with the selectbox's  *)
(* current value, then the two buttons are tested.                         *)
(***************************************************************************)
\* where run() continues after set_task() returns (lines 112 and 120 test
\* the buttons, which are local to the rerun)
AfterSetTask == IF trigger = "start" THEN "l113"
                ELSE IF trigger = "analyze" THEN "l121" ELSE "idle"

\* an operator interaction starts a rerun; the previous rerun's output is gone
DexRerun(t, trig) ==
    /\ tool = "dexterity" /\ spc = "idle"
    /\ trig = "select" \/ t = sel
    /\ sel' = t /\ trigger' = trig
    /\ analysis' = NoAnalysis
    /\ spc' = "l30"
    /\ UNCHANGED <<tool, now, dtask, tracking, start_time, points, tpc, hand>>
    /\ UNCHANGED faceVars

\* line 30: self.task = task
Dex_set_task_l30 ==
    /\ spc = "l30"
    /\ dtask' = sel
    /\ spc' = "l31"
    /\ UNCHANGED <<tool, now, sel, trigger, tracking, start_time, points, tpc, hand, analysis>>
    /\ UNCHANGED faceVars

\* line 31: self.tracking = (task == "Hold Steady")
Dex_set_task_l31 ==
    /\ spc = "l31"
    /\ tracking' = (sel = "Hold Steady")
    /\ spc' = "l32"
    /\ UNCHANGED <<tool, now, sel, trigger, dtask, start_time, points, tpc, hand, analysis>>
    /\ UNCHANGED faceVars

\* line 32: if self.tracking:
Dex_set_task_l32 ==
    /\ spc = "l32"
    /\ spc' = IF tracking THEN "l33" ELSE "l36"
    /\ UNCHANGED <<tool, now, sel, trigger, dtask, tracking, start_time, points, tpc, hand, analysis>>
    /\ UNCHANGED faceVars

\* line 33: st.session_state.points = []
Dex_set_task_l33 ==
    /\ spc = "l33"
    /\ points' = <<>>
    /\ spc' = "l34"
    /\ UNCHANGED <<tool, now, sel, trigger, dtask, tracking, start_time, tpc, hand, analysis>>
    /\ UNCHANGED faceVars

\* line 34: self.start_time = time.time()
Dex_set_task_l34 ==
    /\ spc = "l34"
    /\ start_time' = now
    /\ spc' = AfterSetTask
    /\ UNCHANGED <<tool, now, sel, trigger, dtask, tracking, points, tpc, hand, analysis>>
    /\ UNCHANGED faceVars

\* line 36: self.start_time = None
Dex_set_task_l36 ==
    /\ spc = "l36"
    /\ start_time' = NoTime
    /\ spc' = AfterSetTask
    /\ UNCHANGED <<tool, now, sel, trigger, dtask, tracking, points, tpc, hand, analysis>>
    /\ UNCHANGED faceVars

\* line 113: ctx.video_transformer.tracking = True
Dex_run_l113 ==
    /\ spc = "l113"
    /\ tracking' = TRUE
    /\ spc' = "l114"
    /\ UNCHANGED <<tool, now, sel, trigger, dtask, start_time, points, tpc, hand, analysis>>
    /\ UNCHANGED faceVars

\* line 114: ctx.video_transformer.start_time = time.time()
Dex_run_l114 ==
    /\ spc = "l114"
    /\ start_time' = now
    /\ spc' = "l115"
    /\ UNCHANGED <<tool, now, sel, trigger, dtask, tracking, points, tpc, hand, analysis>>
    /\ UNCHANGED faceVars

\* line 115: st.session_state.points = []
Dex_run_l115 ==
    /\ spc = "l115"
    /\ points' = <<>>
    /\ spc' = "idle"
    /\ UNCHANGED <<tool, now, sel, trigger, dtask, tracking, start_time, tpc, hand, analysis>>
    /\ UNCHANGED faceVars

\* lines 121-122: if not st.session_state.points: st.warning(...)
Dex_run_l121 ==
    /\ spc = "l121"
    /\ IF points = <<>>
       THEN analysis' = NoDataWarning /\ spc' = "idle"
       ELSE analysis' = analysis /\ spc' = "l124"
    /\ UNCHANGED <<tool, now, sel, trigger, dtask, tracking, start_time, points, tpc, hand>>
    /\ UNCHANGED faceVars

\* lines 124-156: points = np.array(st.session_state.points); the scores and
\* the path image are computed from that copy
Dex_run_l124 ==
    /\ spc = "l124"
    /\ analysis' = AnalysisResults(points)
    /\ spc' = "idle"
    /\ UNCHANGED <<tool, now, sel, trigger, dtask, tracking, start_time, points, tpc, hand>>
    /\ UNCHANGED faceVars

DexScript ==
    \/ \E t \in DexTasks, trig \in {"select", "start", "analyze"} : DexRerun(t, trig)
    \/ Dex_set_task_l30 \/ Dex_set_task_l31 \/ Dex_set_task_l32
    \/ Dex_set_task_l33 \/ Dex_set_task_l34 \/ Dex_set_task_l36
    \/ Dex_run_l113 \/ Dex_run_l114 \/ Dex_run_l115
    \/ Dex_run_l121 \/ Dex_run_l124

----
(***************************************************************************)
(* neuro_steady.py: DexterityTransformer.transform, one call per frame.    *)
(***************************************************************************)
\* line 49: self.start_time and (time.time() - self.start_time) > 10
WindowExpired == Truthy(start_time) /\ (now - start_time) > TrackSeconds

\* lines 39-43: a frame arrives and the hand detector runs on it
DexFrame(h) ==
    /\ tool = "dexterity" /\ tpc = "idle"
    /\ h # <<>> => Len(points) < MaxPoints
    /\ hand' = h
    /\ tpc' = "l45"
    /\ UNCHANGED <<tool, now, sel, trigger, spc, dtask, tracking, start_time, points, analysis>>
    /\ UNCHANGED faceVars

\* lines 45-49: if self.task == "Hold Steady": ... if <expired>:
Dex_transform_l45 ==
    /\ tpc = "l45"
    /\ tpc' = IF dtask = "Hold Steady" /\ WindowExpired THEN "l51" ELSE "l55"
    /\ UNCHANGED <<tool, now, sel, trigger, spc, dtask, tracking, start_time, points, hand, analysis>>
    /\ UNCHANGED faceVars

\* closing the window also empties the buffer
Dex_transform_l51_clearing ==
    /\ tpc = "l51"
    /\ tracking' = FALSE
    /\ points' = <<>>
    /\ tpc' = "l52"
    /\ UNCHANGED <<tool, now, sel, trigger, spc, dtask, start_time, hand, analysis>>
    /\ UNCHANGED faceVars

\* line 51: self.tracking = False
Dex_transform_l51 ==
    /\ tpc = "l51"
    /\ tracking' = FALSE
    /\ tpc' = "l52"
    /\ UNCHANGED <<tool, now, sel, trigger, spc, dtask, start_time, points, hand, analysis>>
    /\ UNCHANGED faceVars

\* line 52: self.task = "None"
Dex_transform_l52 ==
    /\ tpc = "l52"
    /\ dtask' = "None"
    /\ tpc' = "l53"
    /\ UNCHANGED <<tool, now, sel, trigger, spc, tracking, start_time, points, hand, analysis>>
    /\ UNCHANGED faceVars

\* line 53: self.start_time = None
Dex_transform_l53 ==
    /\ tpc = "l53"
    /\ start_time' = NoTime
    /\ tpc' = "l55"
    /\ UNCHANGED <<tool, now, sel, trigger, spc, dtask, tracking, points, hand, analysis>>
    /\ UNCHANGED faceVars

\* line 55: if results.multi_hand_landmarks and self.tracking:
Dex_transform_l55 ==
    /\ tpc = "l55"
    /\ tpc' = IF hand # <<>> /\ tracking THEN "l66" ELSE "idle"
    /\ hand' = IF hand # <<>> /\ tracking THEN hand ELSE <<>>
    /\ UNCHANGED <<tool, now, sel, trigger, spc, dtask, tracking, start_time, points, analysis>>
    /\ UNCHANGED faceVars

\* line 66: st.session_state.points.append((cx, cy)); lines 68-76 only draw
Dex_transform_l66 ==
    /\ tpc = "l66"
    /\ points' = Append(points, hand[1])
    /\ hand' = <<>>
    /\ tpc' = "idle"
    /\ UNCHANGED <<tool, now, sel, trigger, spc, dtask, tracking, start_time, analysis>>
    /\ UNCHANGED faceVars

DexTransform ==
    \/ \E h \in {<<>>} \cup {<<p>> : p \in HandPoints} : DexFrame(h)
    \/ Dex_transform_l45 \/ Dex_transform_l51 \/ Dex_transform_l52
    \/ Dex_transform_l53 \/ Dex_transform_l55 \/ Dex_transform_l66

\* wall-clock time passes (only neuro_steady.py reads the clock); a rerun or a
\* frame takes far less than TickStep seconds, so the clock is read between them
Tick ==
    /\ tool = "dexterity" /\ spc = "idle" /\ tpc = "idle"
    /\ now + TickStep <= MaxTime
    /\ now' = now + TickStep
    /\ UNCHANGED <<tool>> /\ UNCHANGED dexVars /\ UNCHANGED faceVars

----
(***************************************************************************)
(* facial_nerve.py: Landmark snapshots.  coords maps each FACIAL_LANDMARKS *)
(* name to (int(lm.x * w), int(lm.y * h)).  The frames of the model are a  *)
(* neutral face with either the mouth corners, the eyebrows or the lower   *)
(* eyelids displaced.                                                      *)
(***************************************************************************)
Pixels == {PixelStep * k : k \in 0..MaxPixel}

Snapshot(ml, mr, el, er, gl, gr) ==
    [mouth_left       |-> <<ml, 0>>,  mouth_right      |-> <<mr, 0>>,
     eyebrow_left     |-> <<0, el>>,  eyebrow_right    |-> <<0, er>>,
     eye_top_left     |-> <<0, 0>>,   eye_bottom_left  |-> <<0, gl>>,
     eye_top_right    |-> <<0, 0>>,   eye_bottom_right |-> <<0, gr>>,
     nose_tip         |-> <<0, 0>>]

Snapshots ==
    {Snapshot(a, b, 0, 0, 0, 0) : a \in Pixels, b \in Pixels}
    \cup {Snapshot(0, 0, a, b, 0, 0) : a \in Pixels, b \in Pixels}
    \cup {Snapshot(0, 0, 0, 0, a, b) : a \in Pixels, b \in Pixels}

\* _get_dist: math.sqrt((p1[0] - p2[0])**2 + (p1[1] - p2[1])**2), in 1/Scale pixel
GetDist(p1, p2) ==
    ISqrt(((p1[1] - p2[1]) * (p1[1] - p2[1])
           + (p1[2] - p2[2]) * (p1[2] - p2[2])) * Scale * Scale)

\* min(l, r) / max(l, r) * 100, in 1/Scale percent
Symmetry(l, r) == (Min(l, r) * 100 * Scale) \div Max(l, r)

NoOverlay == [baselineSet |-> FALSE, label |-> "", left |-> 0, right |-> 0,
              symmetry |-> 0, error |-> ""]

\* the threshold guard written with >= instead of >
ScoredAtLeast(ov, label, l, r, threshold) ==
    IF (l + r) >= threshold
    THEN IF Max(l, r) = 0
         THEN [ov EXCEPT !.error = "ZeroDivisionError"]
         ELSE [ov EXCEPT !.label = label, !.left = l, !.right = r,
                         !.symmetry = Symmetry(l, r)]
    ELSE ov

\* what a scoring branch draws for the metric pair (l, r): nothing up to the
\* threshold, the label and the numbers above it; the division raises when
\* max(l, r) is 0
Scored(ov, label, l, r, threshold) ==
    IF (l + r) > threshold
    THEN IF Max(l, r) = 0
         THEN [ov EXCEPT !.error = "ZeroDivisionError"]
         ELSE [ov EXCEPT !.label = label, !.left = l, !.right = r,
                         !.symmetry = Symmetry(l, r)]
    ELSE ov

\* lines 78-83
SmileScore(ov, cur, base) ==
    LET left_dist  == Abs(cur.mouth_left[1] - base.mouth_left[1])
        right_dist == Abs(cur.mouth_right[1] - base.mouth_right[1])
    IN  Scored(ov, "Smile Symmetry", left_dist, right_dist, SmileThreshold)

\* lines 87-92
EyebrowScore(ov, cur, base) ==
    LET left_raise  == base.eyebrow_left[2] - cur.eyebrow_left[2]
        right_raise == base.eyebrow_right[2] - cur.eyebrow_right[2]
    IN  Scored(ov, "Eyebrow Symmetry", left_raise, right_raise, BrowThreshold)

\* lines 96-102
EyeClosureScore(ov, cur) ==
    LET left_opening  == GetDist(cur.eye_top_left, cur.eye_bottom_left)
        right_opening == GetDist(cur.eye_top_right, cur.eye_bottom_right)
    IN  Scored(ov, "Eye Closure", left_opening, right_opening, EyeThreshold)

----
(***************************************************************************)
(* facial_nerve.py: the script thread.  run() (lines 124-134) calls        *)
(* set_task(task) with the selectbox's value on every rerun.               *)
(***************************************************************************)
FaceRerun(t) ==
    /\ tool = "facial" /\ fspc = "idle"
    /\ fsel' = t
    /\ fspc' = "l36"
    /\ UNCHANGED <<tool, now, ftask, baseline_coords, ftpc, coords, baseline, overlay>>
    /\ UNCHANGED dexVars

\* line 36: self.task = task; line 37: if task == "Set Baseline":
Face_set_task_l36 ==
    /\ fspc = "l36"
    /\ ftask' = fsel
    /\ fspc' = IF fsel = "Set Baseline" THEN "l38" ELSE "idle"
    /\ UNCHANGED <<tool, now, fsel, baseline_coords, ftpc, coords, baseline, overlay>>
    /\ UNCHANGED dexVars

\* line 38: st.session_state.baseline_coords = None
Face_set_task_l38 ==
    /\ fspc = "l38"
    /\ baseline_coords' = <<>>
    /\ fspc' = "idle"
    /\ UNCHANGED <<tool, now, fsel, ftask, ftpc, coords, baseline, overlay>>
    /\ UNCHANGED dexVars

FaceScript ==
    \/ \E t \in FaceTasks : FaceRerun(t)
    \/ Face_set_task_l36 \/ Face_set_task_l38

----
(***************************************************************************)
(* facial_nerve.py: FacialNerveTransformer.transform, one call per frame.  *)
(***************************************************************************)
\* transform returns img: its locals are gone
FaceReturn ==
    /\ ftpc' = "idle" /\ coords' = <<>> /\ baseline' = <<>>

\* lines 48-67: a frame arrives, the face mesh runs, coords is filled
FaceFrame(c) ==
    /\ tool = "facial" /\ ftpc = "idle"
    /\ overlay' = NoOverlay
    /\ IF c = <<>> THEN FaceReturn
       ELSE ftpc' = "l69" /\ coords' = c /\ baseline' = <<>>
    /\ UNCHANGED <<tool, now, fsel, fspc, ftask, baseline_coords>>
    /\ UNCHANGED dexVars

\* line 69: if self.task == "Set Baseline":
Face_transform_l69 ==
    /\ ftpc = "l69"
    /\ ftpc' = IF ftask = "Set Baseline" THEN "l70" ELSE "l73"
    /\ UNCHANGED <<tool, now, fsel, fspc, ftask, baseline_coords, coords, baseline, overlay>>
    /\ UNCHANGED dexVars

\* the new snapshot merged into the previous baseline instead of replacing it
MergedBaseline ==
    IF baseline_coords = <<>> THEN coords
    ELSE <<[coords[1] EXCEPT !.mouth_left = baseline_coords[1].mouth_left,
                             !.eyebrow_left = baseline_coords[1].eyebrow_left]>>

\* the value line 70 stores
StoredBaseline == coords

\* capturing the baseline also leaves the "Set Baseline" task
Face_transform_l70_leaving ==
    /\ ftpc = "l70"
    /\ baseline_coords' = StoredBaseline
    /\ overlay' = [overlay EXCEPT !.baselineSet = TRUE]
    /\ ftask' = "None"
    /\ ftpc' = "l73"
    /\ UNCHANGED <<tool, now, fsel, fspc, coords, baseline>>
    /\ UNCHANGED dexVars

\* lines 70-71: st.session_state.baseline_coords = coords; "Baseline Set!"
Face_transform_l70 ==
    /\ ftpc = "l70"
    /\ baseline_coords' = StoredBaseline
    /\ overlay' = [overlay EXCEPT !.baselineSet = TRUE]
    /\ ftpc' = "l73"
    /\ UNCHANGED <<tool, now, fsel, fspc, ftask, coords, baseline>>
    /\ UNCHANGED dexVars

\* line 73: if st.session_state.baseline_coords is not None:
Face_transform_l73 ==
    /\ ftpc = "l73"
    /\ IF baseline_coords # <<>>
       THEN ftpc' = "l74" /\ UNCHANGED <<coords, baseline>>
       ELSE FaceReturn
    /\ UNCHANGED <<tool, now, fsel, fspc, ftask, baseline_coords, overlay>>
    /\ UNCHANGED dexVars

\* line 74: baseline = st.session_state.baseline_coords
Face_transform_l74 ==
    /\ ftpc = "l74"
    /\ baseline' = baseline_coords
    /\ ftpc' = "l76"
    /\ UNCHANGED <<tool, now, fsel, fspc, ftask, baseline_coords, coords, overlay>>
    /\ UNCHANGED dexVars

\* lines 76-83: if self.task == "Smile": ... baseline["mouth_left"] ...
Face_transform_l76 ==
    /\ ftpc = "l76"
    /\ IF ftask = "Smile"
       THEN /\ overlay' = IF baseline = <<>>
                          THEN [overlay EXCEPT !.error = "TypeError"]
                          ELSE SmileScore(overlay, coords[1], baseline[1])
            /\ FaceReturn
       ELSE ftpc' = "l85" /\ UNCHANGED <<coords, baseline, overlay>>
    /\ UNCHANGED <<tool, now, fsel, fspc, ftask, baseline_coords>>
    /\ UNCHANGED dexVars

\* lines 85-92: elif self.task == "Raise Eyebrows": ... baseline["eyebrow_left"] ...
Face_transform_l85 ==
    /\ ftpc = "l85"
    /\ IF ftask = "Raise Eyebrows"
       THEN /\ overlay' = IF baseline = <<>>
                          THEN [overlay EXCEPT !.error = "TypeError"]
                          ELSE EyebrowScore(overlay, coords[1], baseline[1])
            /\ FaceReturn
       ELSE ftpc' = "l94" /\ UNCHANGED <<coords, baseline, overlay>>
    /\ UNCHANGED <<tool, now, fsel, fspc, ftask, baseline_coords>>
    /\ UNCHANGED dexVars

\* lines 94-102: elif self.task == "Close Eyes Tightly": (baseline is not read)
Face_transform_l94 ==
    /\ ftpc = "l94"
    /\ overlay' = IF ftask = "Close Eyes Tightly"
                  THEN EyeClosureScore(overlay, coords[1])
                  ELSE overlay
    /\ FaceReturn
    /\ UNCHANGED <<tool, now, fsel, fspc, ftask, baseline_coords>>
    /\ UNCHANGED dexVars

FaceTransform ==
    \/ \E c \in {<<>>} \cup {<<s>> : s \in Snapshots} : FaceFrame(c)
    \/ Face_transform_l69 \/ Face_transform_l70 \/ Face_transform_l73
    \/ Face_transform_l74 \/ Face_transform_l76 \/ Face_transform_l85
    \/ Face_transform_l94

----
(***************************************************************************)
(* The session.  app.py lines 42-46 run exactly one tool's run(); lines    *)
(* 16-17 and 28-29 of the tools initialise st.session_state, and the       *)
(* transformers start as __init__ leaves them.                             *)
(***************************************************************************)
Tools == {"dexterity", "facial"}

Init ==
    /\ tool \in Tools
    /\ now = StartClock
    /\ sel = "None" /\ trigger = "select" /\ spc = "idle"
    /\ dtask = "None" /\ tracking = FALSE /\ start_time = NoTime
    /\ points = <<>>
    /\ tpc = "idle" /\ hand = <<>> /\ analysis = NoAnalysis
    /\ fsel = "None" /\ fspc = "idle" /\ ftask = "None"
    /\ baseline_coords = <<>>
    /\ ftpc = "idle" /\ coords = <<>> /\ baseline = <<>> /\ overlay = NoOverlay

Next == DexScript \/ DexTransform \/ FaceScript \/ FaceTransform \/ Tick

Spec == Init /\ [][Next]_vars

----
(***************************************************************************)
(* Properties                                                              *)
(***************************************************************************)

\* C1: whenever the Smile or Raise Eyebrows branch has emitted a symmetry
\* score, the score is strictly greater than 0 and at most 100, and it is 100
\* exactly when left = right.
C1_ScoreInRange ==
    overlay.label \in {"Smile Symmetry", "Eyebrow Symmetry"} =>
        /\ overlay.symmetry > 0
        /\ overlay.symmetry <= 100 * Scale
        /\ (overlay.symmetry = 100 * Scale) <=> (overlay.left = overlay.right)

\* C2: when transform finds the Baseline Store empty on a face-detected frame
\* while a scoring task is active, the frame's result is the reported error
\* NoBaseline, and no score is emitted.
C2_NoBaselineReported ==
    [][(ftpc = "l73" /\ baseline_coords = <<>> /\ ftask \in ScoringTasks
        /\ ftpc' = "idle")
       => (overlay'.error = "NoBaseline" /\ overlay'.label = "")]_vars

\* C3 (as stated): an Analyze request handled while the capture window is
\* closed never computes statistics from the points left in the buffer.
C3_StaleNeverAnalysed ==
    [][(spc = "l124" /\ spc' = "idle" /\ ~tracking) => analysis'.kind # "stats"]_vars

\* C3 (amended): closing the window leaves the buffer as it is; the buffer is
\* emptied only where a capture starts (set_task line 33, Start button line
\* 115); and the Analyze branch, once it found the buffer non-empty, computes
\* its statistics from the points the buffer holds, window open or not.
C3_BufferKeptOnClose ==
    [][/\ (tracking /\ ~tracking') => points' = points
       /\ (points # <<>> /\ points' = <<>>) => spc \in {"l33", "l115"}
       /\ (spc = "l124" /\ spc' = "idle")
            => (analysis'.kind = "stats" /\ analysis'.pts = points)]_vars

\* C3 witness: statistics of a non-empty buffer shown while the window is
\* closed and no task is active
C3_Witness ==
    /\ analysis.kind = "stats" /\ analysis.pts = points /\ points # <<>>
    /\ ~tracking /\ start_time = NoTime /\ dtask = "None" /\ spc = "idle"

\* C4: on a frame with now - start_time >= 10 seconds nothing is appended to
\* the buffer, whatever task is selected (appends happen only while
\* now - start_time < duration).
C4_NoAppendAfterDuration ==
    [][Len(points') > Len(points)
       => ~(start_time # NoTime /\ now - start_time >= TrackSeconds)]_vars

\* C5: no statement executed while an Analyze Results request is handled
\* changes the Trajectory Buffer.
C5_AnalyzeReadOnly ==
    [][(trigger = "analyze" /\ spc # "idle" /\ spc' # spc) => points' = points]_vars

\* C6: selecting "Set Baseline" ends with the store empty; the store becomes
\* non-empty only by transform line 70; and line 70 replaces the store by
\* exactly the snapshot of the frame being processed.
C6_SetBaseline ==
    [][/\ (fspc = "l38" /\ fspc' = "idle") => baseline_coords' = <<>>
       /\ (baseline_coords' # baseline_coords /\ baseline_coords' # <<>>)
            => (ftpc = "l70" /\ baseline_coords' = coords)
       /\ (ftpc = "l69" /\ ftpc' # ftpc /\ ftask = "Set Baseline") => ftpc' = "l70"
       /\ (ftpc = "l70" /\ ftpc' # ftpc)
            => (coords # <<>> /\ baseline_coords' = coords)]_vars

\* C6 witness: a frame has just overwritten the store while "Set Baseline" is
\* the selected task
C6_Witness ==
    /\ ftask = "Set Baseline" /\ fspc = "idle" /\ ftpc = "l73"
    /\ overlay.baselineSet /\ coords # <<>> /\ baseline_coords = coords

\* C7 (as stated): the active task of either tool changes only in set_task.
C7_TaskOnlyBySelection ==
    [][/\ dtask' # dtask => spc = "l30"
       /\ ftask' # ftask => fspc = "l36"]_vars

\* C7 (amended): the facial tool's task changes only in set_task, to the
\* selectbox's value; the dexterity tool's task changes in set_task, to the
\* selectbox's value, or at transform line 52 (the capture window's timeout),
\* from "Hold Steady" or an interleaved selection to "None".
C7_TaskChanges ==
    [][/\ ftask' # ftask => (fspc = "l36" /\ ftask' = fsel)
       /\ dtask' # dtask => \/ (spc = "l30" /\ spc' = "l31" /\ dtask' = sel)
                            \/ (tpc = "l52" /\ tpc' = "l53" /\ dtask' = "None")]_vars

\* C7 witness: the timeout has reset the task while the operator's selection
\* is still "Hold Steady"
C7_Witness ==
    /\ tpc = "l53" /\ dtask = "None" /\ sel = "Hold Steady" /\ spc = "idle"

\* C8: between the Analyze branch's emptiness test (line 121) and its read of
\* the buffer (line 124) no callback modifies the buffer.
C8_ReadExclusive ==
    [][spc = "l124" => points' = points]_vars

\* C9: the steadiness score of an analysed (non-empty) buffer is non-negative
\* and is 0 if and only if all its points are identical.
C9_Steadiness ==
    analysis.kind = "stats" =>
        /\ analysis.steadiness >= 0
        /\ (analysis.steadiness = 0)
             <=> (\A i, j \in 1..Len(analysis.pts) : analysis.pts[i] = analysis.pts[j])

\* C9 witness: a buffer of several identical points analysed to steadiness 0
C9_Witness ==
    /\ analysis.kind = "stats" /\ Len(analysis.pts) >= 2
    /\ \A i, j \in 1..Len(analysis.pts) : analysis.pts[i] = analysis.pts[j]
    /\ analysis.steadiness = 0

\* C10: transform never indexes a None baseline (no TypeError is raised by
\* baseline[...] in the Smile and Raise Eyebrows branches).
C10_BaselineNeverNone ==
    overlay.error # "TypeError"

\* C11: in the Smile, Raise Eyebrows and Close Eyes Tightly branches the
\* divisor max(left, right) is strictly positive whenever the ratio is
\* evaluated: no frame ends in a ZeroDivisionError, and every emitted metric
\* pair has a positive maximum.
C11_DivisorPositive ==
    /\ overlay.error # "ZeroDivisionError"
    /\ overlay.label # "" => Max(overlay.left, overlay.right) > 0

\* C11 witness: the Close Eyes Tightly ratio evaluated with one eye fully
\* closed (min = 0), the pair closest to the guard 0 + right > 0
C11_Witness ==
    /\ overlay.label = "Eye Closure"
    /\ overlay.left = 0 /\ overlay.right > 0 /\ overlay.symmetry = 0

====
